---- MODULE Spec2Model ----
(***************************************************************************)
(* Model of the orchestration in src/App.tsx (the App component: image     *)
(* upload, story generation, speech generation, playback) together with    *)
(* the two remote calls of src/services/geminiService.ts.                  *)
(*                                                                         *)
(* One action is one run of an event handler or of the continuation of an  *)
(* async function after an await: JavaScript runs each of them to          *)
(* completion on a single thread, and React re-renders between them, so a  *)
(* handler always reads the state of the latest render.                    *)
(***************************************************************************)
EXTENDS Integers, Sequences, FiniteSets, Bags, TLC

VARIABLES
    image,            \* useState image: NoImage or the data URI of a file
    story,            \* useState story: a text, <<>> is ''
    status,           \* useState status: AppState
    error,            \* useState error: a message, "" is none
    isPlaying,        \* useState isPlaying
    audioContextRef,  \* useRef: "null", or the state of the one AudioContext
    audioSourceRef,   \* useRef: NoSource or the source it holds
    sources,          \* bag of the started sources the ref does not hold
    reads,            \* FileReader loads in progress, per file
    storyCalls,       \* generateStoryFromImage calls in flight, per image
    speechTasks,      \* bag of the runs of handleTogglePlayback at an await
    pcm               \* a call of decodeAudioData: its arguments and result

vars == <<image, story, status, error, isPlaying, audioContextRef,
          audioSourceRef, sources, reads, storyCalls, speechTasks, pcm>>

----------------------------------------------------------------------------
(* Bounds *)

\* FileReader loads plus story calls that may be pending at once
MaxPending == 2
\* runs of handleTogglePlayback suspended at an await plus sources whose
\* 'ended' handler has not run, at once
MaxSessions == 2
\* longest audio payload, in bytes
MaxBytes == 1

\* longest byte buffer and largest channel count given to decodeAudioData
\* on its own
MaxPcmBytes == 4
MaxChannels == 2

----------------------------------------------------------------------------
(* Values *)

NoImage == 0

AppState == {"idle", "loadingStory", "loadingAudio", "error"}

MsgInvalidImage == "Please upload a valid image file."
MsgStoryFailed == "Failed to generate story. Please try again."
MsgAudioFailed == "Failed to generate audio. Please try again."

\* The files the user can pick, told apart by type and content (two files
\* of the same content give the same data URI).  The accept attribute of
\* the input is only a hint to the picker, so any file can arrive in the
\* change event.
Files == {1, 2, 3}

\* file.type, as a sequence of tokens
FileType(f) ==
    CASE f = 1 -> <<"image", "/", "jpeg">>
      [] f = 2 -> <<"image", "/", "png">>
      [] OTHER -> <<"application", "/", "pdf">>

StartsWith(s, p) == Len(s) >= Len(p) /\ SubSeq(s, 1, Len(p)) = p

IsImageFile(f) == StartsWith(FileType(f), <<"image", "/">>)

ImageFiles == {f \in Files : IsImageFile(f)}

\* A text is a sequence of characters; SP is white space, and the only other
\* character of a text the story service writes for image i is Glyph(i), so
\* that a text tells which call it came from.
SP == " "

Glyph(i) == IF i = 1 THEN "a" ELSE "b"

\* response.text of the story service for image i
ResponseTexts(i) ==
    {<<SP>>, <<Glyph(i)>>, <<SP, Glyph(i)>>, <<Glyph(i), SP>>}

RECURSIVE TrimStart(_)
TrimStart(s) ==
    IF s = <<>> THEN <<>>
    ELSE IF Head(s) = SP THEN TrimStart(Tail(s)) ELSE s

RECURSIVE TrimEnd(_)
TrimEnd(s) ==
    IF s = <<>> THEN <<>>
    ELSE IF s[Len(s)] = SP THEN TrimEnd(SubSeq(s, 1, Len(s) - 1)) ELSE s

\* String.prototype.trim
Trim(s) == TrimEnd(TrimStart(s))

\* What the speech service can answer with: no inline audio data, a string
\* that is not base64, or base64 text encoding len bytes.
Payloads ==
    {[kind |-> "none", len |-> 0], [kind |-> "malformed", len |-> 0]}
    \cup {[kind |-> "b64", len |-> n] : n \in 0..MaxBytes}

\* utils/audioUtils decode: the bytes of a base64 text; fails on other text
decodeOk(p) == p.kind = "b64"
decode(p) == p.len

\* utils/audioUtils decodeAudioData: fails on an empty byte buffer
decodeAudioDataOk(byteLength) == byteLength # 0

\* the byte values the buffers are drawn from: both signs, both bytes used
ByteValues == {0, 128, 255}

RECURSIVE SeqsUpTo(_, _)
\* the sequences over S of length at most n
SeqsUpTo(S, n) ==
    IF n = 0 THEN {<<>>}
    ELSE LET shorter == SeqsUpTo(S, n - 1)
         IN shorter \cup {Append(q, x) : q \in shorter, x \in S}

\* the signed 16-bit little-endian integer of two bytes
Int16(lo, hi) ==
    LET u == lo + 256 * hi IN IF u >= 32768 THEN u - 65536 ELSE u

\* the buffer read as 16-bit samples; a trailing single byte is dropped
DataInt16(data) ==
    [i \in 1..(Len(data) \div 2) |-> Int16(data[2 * i - 1], data[2 * i])]

RECURSIVE Deinterleave(_, _)
\* the complete frames of interleaved samples, one sample per channel; a
\* trailing frame that lacks a channel is dropped
Deinterleave(samples, numChannels) ==
    IF Len(samples) < numChannels THEN <<>>
    ELSE <<SubSeq(samples, 1, numChannels)>>
         \o Deinterleave(SubSeq(samples, numChannels + 1, Len(samples)),
                         numChannels)

\* the result of a decodeAudioData call that was not made
NoBuffer == [ok |-> FALSE, error |-> "", channels |-> <<>>]

\* decodeAudioData that takes an empty buffer for an empty clip
decodeAudioDataAcceptsEmpty(data, numChannels) ==
    LET frames == Deinterleave(DataInt16(data), numChannels)
    IN [ok |-> TRUE, error |-> "",
        channels |-> [c \in 1..numChannels |->
                         [k \in 1..Len(frames) |-> frames[k][c]]]]

\* utils/audioUtils decodeAudioData: the channel data of the buffer, each
\* sample the 16-bit integer that is divided by 32768, or the failure
decodeAudioData(data, numChannels) ==
    IF ~decodeAudioDataOk(Len(data))
    THEN [ok |-> FALSE, error |-> "InvalidAudioFormatError",
          channels |-> <<>>]
    ELSE LET frames == Deinterleave(DataInt16(data), numChannels)
         IN [ok |-> TRUE, error |-> "",
             channels |-> [c \in 1..numChannels |->
                              [k \in 1..Len(frames) |-> frames[k][c]]]]

\* the arguments decodeAudioData is checked on
PcmInputs ==
    {[data |-> d, numChannels |-> c, out |-> NoBuffer] :
        d \in SeqsUpTo(ByteValues, MaxPcmBytes), c \in 1..MaxChannels}

\* An AudioBufferSourceNode that was started is "rendering" from start()
\* until its clip ends or stop() is called, then "ended" until its 'ended'
\* event, which is queued then, has been handled; connected tells whether
\* it is still wired to the destination.  The nodes have no identity of
\* their own: the model keeps the node audioSourceRef holds, and a bag of
\* the others; a node whose onended has run is dropped.
SourceStates == [st : {"rendering", "ended"}, connected : BOOLEAN]

NoSource == [st |-> "null", connected |-> FALSE]

\* sum of a per-file counter
RECURSIVE Total(_, _)
Total(cnt, S) ==
    IF S = {} THEN 0
    ELSE LET x == CHOOSE y \in S : TRUE IN cnt[x] + Total(cnt, S \ {x})

\* the source audioSourceRef holds, as a bag
Held == IF audioSourceRef = NoSource THEN EmptyBag
        ELSE SetToBag({audioSourceRef})

\* the sources whose 'ended' handler has not run
Live == sources (+) Held
NumLive == BagCardinality(Live)

\* playback sessions: sources started and neither ended nor stopped
NumRendering ==
    LET l == Live
    IN BagCardinality([n \in {m \in BagToSet(l) : m.st = "rendering"} |->
                          l[n]])

\* the text of a story, as trim returns it
Stories == {Trim(raw) : raw \in UNION {ResponseTexts(f) : f \in ImageFiles}}

\* a run of handleTogglePlayback suspended at an await: pc is the await
\* (resume() or generateSpeechFromText), text the story of its closure.
\* The await of decodeAudioData is no place of its own: decodeAudioData is
\* a pure transform, so its promise is settled when it returns and the run
\* resumes in the same microtask checkpoint, before any other event.
TaskStates == [pc : {"resume", "speech"}, text : Stories \ {<<>>}]

Tasks == BagToSet(speechTasks)
NumTasks == BagCardinality(speechTasks)
NumSpeechCalls ==
    BagCardinality([t \in {u \in Tasks : u.pc = "speech"} |-> speechTasks[t]])
Without(t) == speechTasks (-) SetToBag({t})
NumStoryCalls == Total(storyCalls, ImageFiles)
NumReads == Total(reads, ImageFiles)

----------------------------------------------------------------------------
Init ==
    /\ image = NoImage
    /\ story = <<>>
    /\ status = "idle"
    /\ error = ""
    /\ isPlaying = FALSE
    /\ audioContextRef = "null"
    /\ audioSourceRef = NoSource
    /\ sources = EmptyBag
    /\ reads = [f \in ImageFiles |-> 0]
    /\ storyCalls = [f \in ImageFiles |-> 0]
    /\ speechTasks = EmptyBag
    /\ pcm = [data |-> <<>>, numChannels |-> 1, out |-> NoBuffer]

----------------------------------------------------------------------------
(* Render: what the interface lets through *)

isLoading == status = "loadingStory" \/ status = "loadingAudio"

\* <input ... disabled={isLoading}>
FileInputEnabled == ~isLoading

\* the button guard without its story test
ButtonEnabledWhateverStory == ~(status = "loadingStory")

\* <button ... disabled={!story || status === 'loadingStory'}>
ButtonEnabled == ~(story = <<>> \/ status = "loadingStory")

----------------------------------------------------------------------------
(* handleImageChange *)

\* handleImageChange with the type check also resetting the story
handleImageChangeResets(f) ==
    IF ~IsImageFile(f)
    THEN /\ error' = MsgInvalidImage
         /\ status' = "error"
         /\ story' = <<>>
         /\ UNCHANGED <<image, isPlaying, audioContextRef, audioSourceRef,
                        sources, reads, storyCalls, speechTasks, pcm>>
    ELSE /\ NumReads + NumStoryCalls < MaxPending
         /\ reads' = [reads EXCEPT ![f] = @ + 1]
         /\ UNCHANGED <<image, story, status, error, isPlaying,
                        audioContextRef, audioSourceRef, sources,
                        storyCalls, speechTasks, pcm>>

\* the change event of the file input, up to reader.readAsDataURL(file)
handleImageChange(f) ==
    IF ~IsImageFile(f)
    THEN /\ error' = MsgInvalidImage
         /\ status' = "error"
         /\ UNCHANGED <<image, story, isPlaying, audioContextRef,
                        audioSourceRef, sources, reads, storyCalls,
                        speechTasks, pcm>>
    ELSE /\ NumReads + NumStoryCalls < MaxPending
         /\ reads' = [reads EXCEPT ![f] = @ + 1]
         /\ UNCHANGED <<image, story, status, error, isPlaying,
                        audioContextRef, audioSourceRef, sources,
                        storyCalls, speechTasks, pcm>>

SelectFile(f) == FileInputEnabled /\ handleImageChange(f)

\* reader.onload without setStory('')
ReaderOnloadKeepsStory(f) ==
    /\ reads[f] > 0
    /\ reads' = [reads EXCEPT ![f] = @ - 1]
    /\ image' = f
    /\ error' = ""
    /\ status' = "loadingStory"
    /\ storyCalls' = [storyCalls EXCEPT ![f] = @ + 1]
    /\ UNCHANGED <<story, isPlaying, audioContextRef, audioSourceRef,
                   sources, speechTasks, pcm>>

\* reader.onload, up to the await of generateStoryFromImage
ReaderOnload(f) ==
    /\ reads[f] > 0
    /\ reads' = [reads EXCEPT ![f] = @ - 1]
    /\ image' = f
    /\ story' = <<>>
    /\ error' = ""
    /\ status' = "loadingStory"
    /\ storyCalls' = [storyCalls EXCEPT ![f] = @ + 1]
    /\ UNCHANGED <<isPlaying, audioContextRef, audioSourceRef, sources,
                   speechTasks, pcm>>

\* the success path of reader.onload without setStatus('idle')
StoryResolveKeepsStatus(f, raw) ==
    /\ storyCalls[f] > 0
    /\ storyCalls' = [storyCalls EXCEPT ![f] = @ - 1]
    /\ story' = Trim(raw)
    /\ UNCHANGED <<image, status, error, isPlaying, audioContextRef,
                   audioSourceRef, sources, reads, speechTasks, pcm>>

\* generateStoryFromImage resolves with response.text.trim()
StoryResolve(f, raw) ==
    /\ storyCalls[f] > 0
    /\ storyCalls' = [storyCalls EXCEPT ![f] = @ - 1]
    /\ story' = Trim(raw)
    /\ status' = "idle"
    /\ UNCHANGED <<image, error, isPlaying, audioContextRef, audioSourceRef,
                   sources, reads, speechTasks, pcm>>

\* generateStoryFromImage rejects (the request failed, or response.text is
\* undefined and trim threw): the catch of reader.onload
StoryReject(f) ==
    /\ storyCalls[f] > 0
    /\ storyCalls' = [storyCalls EXCEPT ![f] = @ - 1]
    /\ error' = MsgStoryFailed
    /\ status' = "error"
    /\ UNCHANGED <<image, story, isPlaying, audioContextRef, audioSourceRef,
                   sources, reads, speechTasks, pcm>>

----------------------------------------------------------------------------
(* Playback *)

\* AudioBufferSourceNode.stop() and disconnect(): a rendering source
\* stops and its 'ended' event is queued, a source that already ended is
\* left as it is; the source is unwired
Stopped(src) == [src EXCEPT !.st = "ended", !.connected = FALSE]

\* the state in which new AudioContext() starts
ContextStates == {"running", "suspended"}

\* what stopPlayback reads and writes: the source audioSourceRef holds, the
\* other sources, isPlaying, and whether the call threw
PlaybackState ==
    [ref |-> audioSourceRef, others |-> sources, playing |-> isPlaying,
     threw |-> FALSE]

\* stopPlayback without the test of audioSourceRef.current: stop() on
\* null throws and the rest of the body does not run
stopPlaybackOnUnguarded(p) ==
    IF p.ref = NoSource
    THEN [p EXCEPT !.threw = TRUE]
    ELSE [ref |-> NoSource,
          others |-> p.others (+) SetToBag({Stopped(p.ref)}),
          playing |-> FALSE, threw |-> p.threw]

\* stopPlayback as a function of the playback state p
stopPlaybackOn(p) ==
    [ref |-> NoSource,
     others |-> IF p.ref # NoSource
                THEN p.others (+) SetToBag({Stopped(p.ref)})
                ELSE p.others,
     playing |-> FALSE,
     threw |-> p.threw]

stopPlayback ==
    LET r == stopPlaybackOn(PlaybackState)
    IN /\ audioSourceRef' = r.ref
       /\ sources' = r.others
       /\ isPlaying' = r.playing

\* handleTogglePlayback with the stop branch also setting the status
handleTogglePlaybackStopSetsIdle(ctx) ==
    IF isPlaying
    THEN /\ stopPlayback
         /\ status' = "idle"
         /\ UNCHANGED <<image, story, error, audioContextRef, reads,
                        storyCalls, speechTasks, pcm>>
    ELSE IF story = <<>>
    THEN UNCHANGED vars
    ELSE /\ NumTasks + NumLive < MaxSessions
         /\ status' = "loadingAudio"
         /\ error' = ""
         /\ LET c == IF audioContextRef = "null" THEN ctx
                     ELSE audioContextRef
            IN /\ audioContextRef' = c
               /\ speechTasks' = speechTasks (+) SetToBag({
                      [pc |-> IF c = "suspended" THEN "resume" ELSE "speech",
                       text |-> story]})
         /\ UNCHANGED <<image, story, isPlaying, audioSourceRef, sources,
                        reads, storyCalls, pcm>>

\* handleTogglePlayback, up to its first await; ctx is the state in which a
\* newly constructed AudioContext starts
handleTogglePlayback(ctx) ==
    IF isPlaying
    THEN /\ stopPlayback
         /\ UNCHANGED <<image, story, status, error, audioContextRef,
                        reads, storyCalls, speechTasks, pcm>>
    ELSE IF story = <<>>
    THEN UNCHANGED vars
    ELSE /\ NumTasks + NumLive < MaxSessions
         /\ status' = "loadingAudio"
         /\ error' = ""
         /\ LET c == IF audioContextRef = "null" THEN ctx
                     ELSE audioContextRef
            IN /\ audioContextRef' = c
               /\ speechTasks' = speechTasks (+) SetToBag({
                      [pc |-> IF c = "suspended" THEN "resume" ELSE "speech",
                       text |-> story]})
         /\ UNCHANGED <<image, story, isPlaying, audioSourceRef, sources,
                        reads, storyCalls, pcm>>

Toggle(ctx) == ButtonEnabled /\ handleTogglePlayback(ctx)

\* the user presses the Read Aloud button: a disabled button dispatches no
\* click, an enabled one runs handleTogglePlayback
PressButton(ctx) ==
    IF ButtonEnabled THEN handleTogglePlayback(ctx) ELSE UNCHANGED vars

\* audioContextRef.current.resume() resolves; generateSpeechFromText(story)
\* is called
ResumeResolve(t) ==
    /\ t \in Tasks
    /\ t.pc = "resume"
    /\ audioContextRef' = "running"
    /\ speechTasks' = Without(t) (+) SetToBag({[t EXCEPT !.pc = "speech"]})
    /\ UNCHANGED <<image, story, status, error, isPlaying, audioSourceRef,
                   sources, reads, storyCalls, pcm>>

\* the catch of handleTogglePlayback without setStatus('error')
AudioCatchKeepsStatus(t) ==
    /\ speechTasks' = Without(t)
    /\ error' = MsgAudioFailed
    /\ isPlaying' = FALSE
    /\ UNCHANGED <<image, story, status, audioContextRef, audioSourceRef,
                   sources, reads, storyCalls, pcm>>

\* the catch of handleTogglePlayback
AudioCatch(t) ==
    /\ speechTasks' = Without(t)
    /\ error' = MsgAudioFailed
    /\ status' = "error"
    /\ isPlaying' = FALSE
    /\ UNCHANGED <<image, story, audioContextRef, audioSourceRef, sources,
                   reads, storyCalls, pcm>>

\* the audio of payload p can be played: generateSpeechFromText returns
\* it, decode and decodeAudioData succeed on it
Playable(p) ==
    /\ p.kind # "none"
    /\ decodeOk(p)
    /\ decodeAudioDataOk(decode(p))

\* generateSpeechFromText settles with the payload p (it rejects when there
\* is no audio data); decode and decodeAudioData run; the source is
\* created, connected and started
SpeechResolve(t, p) ==
    /\ t \in Tasks
    /\ t.pc = "speech"
    /\ IF ~Playable(p)
       THEN AudioCatch(t)
       ELSE /\ speechTasks' = Without(t)
            /\ sources' = sources (+) Held
            /\ audioSourceRef' = [st |-> "rendering", connected |-> TRUE]
            /\ isPlaying' = TRUE
            /\ status' = "idle"
            /\ UNCHANGED <<image, story, error, audioContextRef, reads,
                           storyCalls, pcm>>

\* the request of generateSpeechFromText fails
SpeechReject(t) ==
    /\ t \in Tasks
    /\ t.pc = "speech"
    /\ AudioCatch(t)

\* the clip of a source plays to its end: rendering stops and 'ended' is
\* queued; held tells whether the source is the one audioSourceRef holds
ClipEnds(src, held) ==
    /\ src.st = "rendering"
    /\ IF held
       THEN /\ audioSourceRef = src
            /\ audioSourceRef' = [src EXCEPT !.st = "ended"]
            /\ UNCHANGED sources
       ELSE /\ BagIn(src, sources)
            /\ sources' = (sources (-) SetToBag({src}))
                              (+) SetToBag({[src EXCEPT !.st = "ended"]})
            /\ UNCHANGED audioSourceRef
    /\ UNCHANGED <<image, story, status, error, isPlaying, audioContextRef,
                   reads, storyCalls, speechTasks, pcm>>

\* the source whose 'ended' event is delivered, as source.onended leaves
\* it: the handler calls neither stop() nor disconnect() on it
EndedSource(src) == src

\* source.onended of a source whose 'ended' event is queued
OnEnded(src, held) ==
    /\ src.st = "ended"
    /\ IF held
       THEN /\ audioSourceRef = src
            /\ UNCHANGED sources
       ELSE /\ BagIn(src, sources)
            /\ sources' = (sources (-) SetToBag({src})) (+) Held
    /\ isPlaying' = FALSE
    /\ audioSourceRef' = NoSource
    /\ UNCHANGED <<image, story, status, error, audioContextRef, reads,
                   storyCalls, speechTasks, pcm>>

----------------------------------------------------------------------------
Next ==
    \/ \E f \in Files : SelectFile(f)
    \/ \E f \in ImageFiles : ReaderOnload(f)
    \/ \E f \in ImageFiles : \E raw \in ResponseTexts(f) : StoryResolve(f, raw)
    \/ \E f \in ImageFiles : StoryReject(f)
    \/ \E ctx \in ContextStates : Toggle(ctx)
    \/ \E t \in TaskStates : ResumeResolve(t)
    \/ \E t \in TaskStates : SpeechReject(t)
    \/ \E t \in TaskStates : \E p \in Payloads : SpeechResolve(t, p)
    \/ \E src \in SourceStates : \E held \in BOOLEAN : ClipEnds(src, held)
    \/ \E src \in SourceStates : \E held \in BOOLEAN : OnEnded(src, held)

Spec == Init /\ [][Next]_vars

\* an event of the user: a file is chosen, the button is pressed
UserEvent ==
    \/ \E f \in Files : SelectFile(f)
    \/ \E ctx \in ContextStates : Toggle(ctx)

\* a pending asynchronous operation settles: a FileReader read, a story
\* call, a resume of the AudioContext, a speech call
Completion ==
    \/ \E f \in ImageFiles : ReaderOnload(f)
    \/ \E f \in ImageFiles : \E raw \in ResponseTexts(f) : StoryResolve(f, raw)
    \/ \E f \in ImageFiles : StoryReject(f)
    \/ \E t \in TaskStates : ResumeResolve(t)
    \/ \E t \in TaskStates : SpeechReject(t)
    \/ \E t \in TaskStates : \E p \in Payloads : SpeechResolve(t, p)

\* the program where every pending read, resume and remote call
\* eventually settles
LiveSpec == Spec /\ WF_vars(Completion)

----------------------------------------------------------------------------
(* decodeAudioData on its own *)

\* the application state, which a call of decodeAudioData does not touch
appVars == <<image, story, status, error, isPlaying, audioContextRef,
             audioSourceRef, sources, reads, storyCalls, speechTasks>>

InitPcm ==
    /\ pcm \in PcmInputs
    /\ image = NoImage
    /\ story = <<>>
    /\ status = "loadingAudio"
    /\ error = ""
    /\ isPlaying = FALSE
    /\ audioContextRef = "running"
    /\ audioSourceRef = NoSource
    /\ sources = EmptyBag
    /\ reads = [f \in ImageFiles |-> 0]
    /\ storyCalls = [f \in ImageFiles |-> 0]
    /\ speechTasks = EmptyBag

\* await decodeAudioData(data, ctx, 24000, numChannels)
CallDecodeAudioData ==
    /\ pcm.out = NoBuffer
    /\ pcm' = [pcm EXCEPT !.out = decodeAudioData(pcm.data, pcm.numChannels)]
    /\ UNCHANGED appVars

NextPcm == CallDecodeAudioData

SpecPcm == InitPcm /\ [][NextPcm]_vars

----------------------------------------------------------------------------
(* Events, as the claims name them *)

\* a playback toggle the interface lets through
ToggleEvent == \E ctx \in ContextStates : Toggle(ctx)

\* a run of handleTogglePlayback reaches its catch
AudioFailure ==
    \E t \in Tasks :
        \/ SpeechReject(t)
        \/ \E p \in Payloads : ~Playable(p) /\ SpeechResolve(t, p)

\* a run of handleTogglePlayback starts its source
AudioSuccess ==
    \E t \in Tasks : \E p \in Payloads : Playable(p) /\ SpeechResolve(t, p)

----------------------------------------------------------------------------
(* Claims *)

\* C1: in every reachable state at most one playback session exists, a
\* session being a started source that has neither ended nor been stopped.
C1_AtMostOneSession == NumRendering <= 1

\* C2: in every reachable state at most one remote call, story generation
\* or speech generation, is outstanding.
C2_SingleFlight == NumStoryCalls + NumSpeechCalls <= 1

\* C3: in every reachable state a non-empty story is the text returned by
\* the story call that was issued for the image currently held.
C3_StoryOfCurrentImage ==
    story # <<>> => (image # NoImage /\ story = <<Glyph(image)>>)

\* C4: selecting a file whose type does not start with "image/" sets the
\* status to error with the message "Please upload a valid image file.",
\* issues no story call and starts no read, and leaves image, story and
\* isPlaying unchanged.
C4_NonImageRejected ==
    [][\A f \in Files :
          (~StartsWith(FileType(f), <<"image", "/">>) /\ SelectFile(f)) =>
              /\ status' = "error"
              /\ error' = MsgInvalidImage
              /\ UNCHANGED <<image, story, isPlaying, storyCalls, reads>>]_vars

\* C4 witness: a non-image file was rejected while an image and its story
\* were shown and the story was being played.
C4_Witness ==
    /\ status = "error" /\ error = MsgInvalidImage
    /\ image # NoImage /\ story # <<>> /\ isPlaying
    /\ NumStoryCalls = 0 /\ NumReads = 0

\* C5: right after a playback toggle received while isPlaying is true, no
\* started source is still rendering and isPlaying is false.
C5_ToggleHaltsOutput ==
    [][(isPlaying /\ ToggleEvent) => (NumRendering' = 0 /\ ~isPlaying')]_vars

\* C6: a playback toggle received with status idle, isPlaying false and a
\* non-empty story sets the status to loadingAudio and starts exactly one
\* speech request for the current story; when that request and the decode
\* succeed, the status is idle, isPlaying is true and exactly one playback
\* session is active.
C6_ReadAloud ==
    [][/\ (status = "idle" /\ ~isPlaying /\ story # <<>> /\ ToggleEvent) =>
              /\ status' = "loadingAudio"
              /\ \E pc \in {"resume", "speech"} :
                     speechTasks' = speechTasks (+) SetToBag({
                         [pc |-> pc, text |-> story]})
       /\ AudioSuccess =>
              /\ status' = "idle"
              /\ isPlaying'
              /\ NumRendering' = 1]_vars

\* C7: when a speech call fails, the service returns no audio payload, or
\* decoding fails, the status becomes error with the message "Failed to
\* generate audio. Please try again.", isPlaying is false, and no playback
\* session is created or left active.
C7_AudioFailureResets ==
    [][AudioFailure =>
          /\ status' = "error"
          /\ error' = MsgAudioFailed
          /\ ~isPlaying'
          /\ NumRendering' = 0]_vars

\* C8: when a valid image file has been read, the image is replaced by the
\* new one, the story and the error message are cleared, the status becomes
\* loadingStory and exactly one story call, for that image, is issued; when
\* a story call succeeds, the status becomes idle and the story is the text
\* the call returned, which is the trimmed text of the response.
C8_StoryGeneration ==
    [][/\ \A f \in ImageFiles :
              ReaderOnload(f) =>
                  /\ image' = f
                  /\ story' = <<>>
                  /\ error' = ""
                  /\ status' = "loadingStory"
                  /\ storyCalls'[f] = storyCalls[f] + 1
                  /\ NumStoryCalls' = NumStoryCalls + 1
                  /\ speechTasks' = speechTasks
       /\ \A f \in ImageFiles : \A raw \in ResponseTexts(f) :
              StoryResolve(f, raw) =>
                  /\ status' = "idle"
                  /\ story' \in {<<>>, <<Glyph(f)>>}
                  /\ story' = TrimEnd(TrimStart(raw))
                  /\ NumStoryCalls' = NumStoryCalls - 1]_vars

\* C8 witness: the second image was read and its story call succeeded; the
\* image is shown with its own story and nothing is pending.
C8_Witness ==
    /\ status = "idle" /\ error = ""
    /\ image = 2 /\ story = <<Glyph(2)>>
    /\ NumStoryCalls = 0 /\ NumReads = 0 /\ NumTasks = 0

\* C9: when a story call fails, the status becomes error with the message
\* "Failed to generate story. Please try again." and the story is empty in
\* the state right after the failure.
C9_StoryFailureUnsetsStory ==
    [][(\E f \in ImageFiles : StoryReject(f)) =>
          /\ status' = "error"
          /\ error' = MsgStoryFailed
          /\ story' = <<>>]_vars

\* C10: a playback toggle received while isPlaying is true changes only the
\* playback session and isPlaying: status, story, image and error message
\* are unchanged and no remote call or read is issued, whatever the status.
C10_StopFrame ==
    [][(isPlaying /\ ToggleEvent) =>
          /\ ~isPlaying'
          /\ audioSourceRef' = NoSource
          /\ NumLive' = NumLive
          /\ UNCHANGED <<status, story, image, error, audioContextRef,
                         storyCalls, speechTasks, reads>>]_vars

\* C10 witness: a session was stopped by a toggle (only stopPlayback
\* disconnects a source) while the status was error, and the state the
\* toggle leaves alone is still there.
C10_Witness ==
    /\ BagIn([st |-> "ended", connected |-> FALSE], sources)
    /\ ~isPlaying /\ audioSourceRef = NoSource
    /\ status = "error" /\ error = MsgInvalidImage
    /\ story # <<>> /\ image # NoImage

\* C11: a press of the playback button while the story is empty or the
\* status is loadingStory changes nothing: status, isPlaying, the playback
\* session, the sources, the error message stay as they are and no run of
\* handleTogglePlayback (hence no speech call) is started.
C11_ToggleIgnored ==
    [][((story = <<>> \/ status = "loadingStory")
            /\ \E ctx \in ContextStates : PressButton(ctx)) =>
          UNCHANGED <<status, isPlaying, audioSourceRef, sources, error,
                      speechTasks, audioContextRef>>]_vars

\* C11 witness: the story is empty while a session is playing (a new
\* image was loaded during playback), the state in which the handler
\* alone would have stopped the session had the button let the press
\* through.
C11_Witness ==
    /\ story = <<>>
    /\ isPlaying
    /\ audioSourceRef # NoSource
    /\ audioSourceRef.st = "rendering"
    /\ ~ButtonEnabled

\* C12: stopPlayback is idempotent. Called in any reachable state it does
\* not throw; called when audioSourceRef holds no source it changes nothing
\* but isPlaying, which becomes false; and a second call right after the
\* first leaves the state the first call left.
C12_StopIdempotent ==
    LET once == stopPlaybackOn(PlaybackState)
        twice == stopPlaybackOn(once)
    IN /\ ~once.threw
       /\ ~twice.threw
       /\ twice = once
       /\ audioSourceRef = NoSource =>
              once = [PlaybackState EXCEPT !.playing = FALSE]

\* C12 witness: a session is rendering, so that the first call stops and
\* releases it and the second call finds no session.
C12_Witness ==
    /\ isPlaying
    /\ audioSourceRef # NoSource
    /\ audioSourceRef.st = "rendering"
    /\ stopPlaybackOn(PlaybackState).ref = NoSource
    /\ BagIn(Stopped(audioSourceRef), stopPlaybackOn(PlaybackState).others)
    /\ stopPlaybackOn(PlaybackState) # PlaybackState

\* C13: the output connection of a session is released on both ways it
\* ends. After an explicit stop the source that was held is disconnected
\* and audioSourceRef holds nothing; after the clip ended by itself and
\* source.onended ran, that source is disconnected and audioSourceRef holds
\* nothing.
C13_ReleasedOnBothEnds ==
    [][/\ (isPlaying /\ ToggleEvent) =>
              /\ ~Stopped(audioSourceRef).connected
              /\ BagIn(Stopped(audioSourceRef), sources')
              /\ audioSourceRef' = NoSource
       /\ \A src \in SourceStates : \A held \in BOOLEAN :
              OnEnded(src, held) =>
                  /\ ~EndedSource(src).connected
                  /\ audioSourceRef' = NoSource]_vars

\* C15: in every reachable state isPlaying agrees with the session
\* reference and with the device: isPlaying is true exactly when
\* audioSourceRef holds a source, and no source other than the one held is
\* rendering.
C15_PlayingAgrees ==
    /\ isPlaying <=> audioSourceRef # NoSource
    /\ \A src \in BagToSet(sources) : src.st # "rendering"

\* C16: in every reachable state in which a story call or a speech call
\* is outstanding the status is loadingStory or loadingAudio.
C16_LoadingWhileCallOutstanding ==
    NumStoryCalls + NumSpeechCalls > 0 => isLoading

\* C17: in every reachable state the error message is non-empty exactly
\* when the status is error.
C17_MessageIffError ==
    error # "" <=> status = "error"

\* C18: in every reachable state, status loadingStory implies that the
\* story is empty.
C18_LoadingStoryHasNoStory ==
    status = "loadingStory" => story = <<>>

\* C18 witness: the status is loadingStory with two story calls
\* outstanding and a run of handleTogglePlayback, started on an earlier
\* story, still in flight.
C18_Witness ==
    /\ status = "loadingStory"
    /\ story = <<>>
    /\ NumStoryCalls = 2
    /\ \E t \in Tasks : t.text # <<>>

\* C19: when every pending operation eventually settles and the user
\* events stop, the status eventually is idle or error and stays so; and
\* at no time is the status loadingStory or loadingAudio while no story
\* call and no run of handleTogglePlayback is outstanding.
C19_SettlesOutOfLoading ==
    /\ [](NumStoryCalls = 0 /\ NumTasks = 0 => ~isLoading)
    /\ ([]<><<UserEvent>>_vars) \/ <>[](status \in {"idle", "error"})

\* C19 witness: a speech run failed and a story call succeeded, nothing
\* is outstanding any more and the status is out of loading.
C19_Witness ==
    /\ NumStoryCalls = 0 /\ NumTasks = 0 /\ NumReads = 0
    /\ status = "idle"
    /\ error = MsgAudioFailed
    /\ story # <<>>

\* C14: decodeAudioData returns exactly floor(byteLength / 2 / numChannels)
\* samples in each channel for every non-empty byte buffer, a trailing
\* incomplete sample or frame being dropped, and fails with
\* InvalidAudioFormatError when the buffer is empty.
C14_FrameCount ==
    pcm.out # NoBuffer =>
        IF Len(pcm.data) = 0
        THEN ~pcm.out.ok /\ pcm.out.error = "InvalidAudioFormatError"
        ELSE /\ pcm.out.ok
             /\ DOMAIN pcm.out.channels = 1..pcm.numChannels
             /\ \A c \in 1..pcm.numChannels :
                    Len(pcm.out.channels[c]) =
                        (Len(pcm.data) \div 2) \div pcm.numChannels

\* C14 witness: three bytes were decoded to two channels: the third byte
\* and the one complete sample, which does not fill a frame, are dropped.
C14_Witness ==
    /\ Len(pcm.data) = 3
    /\ pcm.numChannels = 2
    /\ pcm.out.ok
    /\ pcm.out.channels = <<(<<>>), (<<>>)>>

====
